---- MODULE Spec2Model ----
(***************************************************************************)
(* The pipa playground: the App state of src/app.rs, its widget handlers,  *)
(* and run_vm, which drives the pipa template engine (ast, gen_ir, Vm).    *)
(*                                                                         *)
(* A text (a Rust String) is a sequence of chunks.  The chunks "\t", "\n"  *)
(* and "\r" are those single characters; every other chunk stands for a    *)
(* run of characters holding none of the three.                            *)
(* A source text is a sequence of elements: a host chunk                   *)
(* [t |-> "host", s |-> chunk], or one {{ }} block with its statements     *)
(* [t |-> "block", stmts |-> <<...>>].                                     *)
(***************************************************************************)
EXTENDS Integers, Sequences, FiniteSets, TLC

\* The fields of App; then run_vm's position and locals (the output buffer,
\* the AST, the IR, the VM); then two history variables: the source as it was
\* when Run was last pressed, and the number of widget edits so far.
VARIABLES scale, new_var, new_array, vars, arrays, code, console, output,
          pc, out, tokens, ir, vm, pressed, edits

vars_all == <<scale, new_var, new_array, vars, arrays, code, console, output,
              pc, out, tokens, ir, vm, pressed, edits>>

\* ---------------------------------------------------------------- bounds

\* Widget edits (a keystroke burst, a button other than Run) per session.
MaxEdits == 3
\* Length, in chunks, of the array texts and host-only sources drawn at start.
MaxLen == 2

\* ------------------------------------------------------------------ texts

RECURSIVE SeqsUpTo(_, _)
SeqsUpTo(S, n) ==
  IF n = 0 THEN {<<>>}
  ELSE LET shorter == SeqsUpTo(S, n - 1)
       IN  shorter \cup {Append(s, c) : s \in shorter, c \in S}

Min(S) == CHOOSE x \in S : \A y \in S : x <= y

\* str::replace("\t", "    ") on one chunk.
ReplaceTabChunk(c) == IF c = "\t" THEN "    " ELSE c

\* A string literal's parts: literal chunks and $(ident) interpolations.
Lit(c) == [t |-> "lit", s |-> c]
Interp(n) == [t |-> "interp", s |-> n]

ReplaceTabsParts(parts) ==
  [i \in 1..Len(parts) |->
     IF parts[i].t = "lit" THEN Lit(ReplaceTabChunk(parts[i].s)) ELSE parts[i]]

ReplaceTabsStmt(st) ==
  CASE st.kind = "Expression" -> [st EXCEPT !.str = ReplaceTabsParts(@)]
    [] st.kind = "MacroDef" ->
         [st EXCEPT !.pattern = ReplaceTabsParts(@), !.body = ReplaceTabsParts(@)]
    [] OTHER -> st

Host(c) == [t |-> "host", s |-> c]
Block(stmts) == [t |-> "block", stmts |-> stmts]

\* state.code.replace("\t", "    "): every tab of the source, in host text
\* and inside the string literals of the blocks alike.
ReplaceTabs(src) ==
  [i \in 1..Len(src) |->
     IF src[i].t = "host" THEN Host(ReplaceTabChunk(src[i].s))
     ELSE Block([k \in 1..Len(src[i].stmts) |-> ReplaceTabsStmt(src[i].stmts[k])])]

RECURSIVE LinesFrom(_, _, _)
\* str::lines(): the text is cut after every "\n" (split_inclusive); a piece
\* loses its final "\n" and then a "\r" before it; a last piece with no "\n"
\* is kept whole, and nothing follows a final "\n".
LinesFrom(s, i, cur) ==
  IF i > Len(s) THEN (IF cur = <<>> THEN <<>> ELSE <<cur>>)
  ELSE IF s[i] = "\n"
       THEN <<IF cur # <<>> /\ cur[Len(cur)] = "\r"
              THEN SubSeq(cur, 1, Len(cur) - 1) ELSE cur>>
            \o LinesFrom(s, i + 1, <<>>)
       ELSE LinesFrom(s, i + 1, Append(cur, s[i]))

Lines(s) == LinesFrom(s, 1, <<>>)

\* ------------------------------------------- the engine: parser (pipa::syntax)

NoError == [kind |-> "None"]
Ok(v) == [ok |-> TRUE, val |-> v, err |-> NoError]
Err(e) == [ok |-> FALSE, val |-> <<>>, err |-> e]

\* The end of the host-text run that starts at element i.
RECURSIVE HostRunEnd(_, _)
HostRunEnd(src, i) ==
  IF i > Len(src) \/ src[i].t # "host" THEN i ELSE HostRunEnd(src, i + 1)

\* A statement of the AST keeps its span: <<element, statement>> in the source.
Spanned(stmts, i) ==
  [k \in 1..Len(stmts) |-> [stmt |-> stmts[k], span |-> <<i, k>>]]

RECURSIVE ParseFrom(_, _, _)
\* Alternating HostText runs and ScriptBlocks; the first structural violation
\* aborts the parse with one SyntaxError.
ParseFrom(src, i, acc) ==
  IF i > Len(src) THEN Ok(acc)
  ELSE IF src[i].t = "host"
  THEN LET j == HostRunEnd(src, i)
       IN  ParseFrom(src, j,
             Append(acc, [node |-> "HostText",
                          text |-> [k \in 1..(j - i) |-> src[i + k - 1].s],
                          stmts |-> <<>>, at |-> i]))
  ELSE LET bad == {k \in 1..Len(src[i].stmts) : src[i].stmts[k].kind = "Malformed"}
       IN  IF bad # {}
           THEN Err([kind |-> "SyntaxError", span |-> <<i, Min(bad)>>])
           ELSE ParseFrom(src, i + 1,
                  Append(acc, [node |-> "ScriptBlock", text |-> <<>>,
                               stmts |-> Spanned(src[i].stmts, i), at |-> i]))

ast(src) == ParseFrom(src, 1, <<>>)

\* ------------------------------------------ the engine: IR generator (pipa::ir)

EmitLiteral(text) == [op |-> "EmitLiteral", text |-> text]
EmitVar(name) == [op |-> "EmitVar", name |-> name]
BeginArrayIter(array) == [op |-> "BeginArrayIter", array |-> array]
EndArrayIter == [op |-> "EndArrayIter"]
BeginMacroCall(name, block) == [op |-> "BeginMacroCall", name |-> name, block |-> block]
EndMacroCall == [op |-> "EndMacroCall"]

\* A string literal lowered to its explicit emit sequence.
LowerParts(parts) ==
  [i \in 1..Len(parts) |->
     IF parts[i].t = "lit" THEN EmitLiteral(<<parts[i].s>>) ELSE EmitVar(parts[i].s)]

MacroNames(table) == {table[i].name : i \in 1..Len(table)}
MacroEntry(table, name) == table[Min({i \in 1..Len(table) : table[i].name = name})]

RECURSIVE CollectMacros(_, _, _, _)
\* First pass over a block: every MacroDef is registered; a name registered
\* twice is DuplicateMacro with the two spans.
CollectMacros(stmts, k, block, table) ==
  IF k > Len(stmts) THEN Ok(table)
  ELSE LET st == stmts[k].stmt
       IN  IF st.kind # "MacroDef" THEN CollectMacros(stmts, k + 1, block, table)
           ELSE IF st.name \in MacroNames(table)
           THEN Err([kind |-> "DuplicateMacro", name |-> st.name,
                     first_span |-> MacroEntry(table, st.name).span,
                     dup_span |-> stmts[k].span])
           ELSE CollectMacros(stmts, k + 1, block,
                  Append(table, [block |-> block, name |-> st.name,
                                 pattern |-> LowerParts(st.pattern),
                                 body |-> LowerParts(st.body),
                                 span |-> stmts[k].span]))

RECURSIVE LowerStmts(_, _, _, _, _)
\* Second pass over a block: the statements lowered in source order, every
\* ?name resolved against the block's table.
LowerStmts(stmts, k, block, table, acc) ==
  IF k > Len(stmts) THEN Ok(acc)
  ELSE LET st == stmts[k].stmt
       IN  CASE st.kind = "Expression" ->
                  LowerStmts(stmts, k + 1, block, table, acc \o LowerParts(st.str))
             [] st.kind = "ArraySelect" ->
                  IF st.macro \notin MacroNames(table)
                  THEN Err([kind |-> "UnknownMacro", name |-> st.macro,
                            span |-> stmts[k].span])
                  ELSE LowerStmts(stmts, k + 1, block, table,
                         acc \o <<BeginArrayIter(st.array),
                                  BeginMacroCall(st.macro, block),
                                  EndMacroCall, EndArrayIter>>)
             [] OTHER -> LowerStmts(stmts, k + 1, block, table, acc)

NoIr == [exists |-> FALSE, code |-> <<>>, macros |-> <<>>]
IrProgram(instrs, macros) == [exists |-> TRUE, code |-> instrs, macros |-> macros]

\* One block: collect, then lower.
LowerBlock(node) ==
  LET table == CollectMacros(node.stmts, 1, node.at, <<>>)
  IN  IF ~table.ok THEN table
      ELSE LET low == LowerStmts(node.stmts, 1, node.at, table.val, <<>>)
           IN  IF ~low.ok THEN low
               ELSE Ok([code |-> low.val, macros |-> table.val])

RECURSIVE LowerFrom(_, _, _, _)
LowerFrom(nodes, i, instrs, macros) ==
  IF i > Len(nodes) THEN Ok(IrProgram(instrs, macros))
  ELSE IF nodes[i].node = "HostText"
  THEN LowerFrom(nodes, i + 1, Append(instrs, EmitLiteral(nodes[i].text)), macros)
  ELSE LET b == LowerBlock(nodes[i])
       IN  IF ~b.ok THEN b
           ELSE LowerFrom(nodes, i + 1, instrs \o b.val.code, macros \o b.val.macros)

gen_ir(src, nodes) == LowerFrom(nodes, 1, <<>>, <<>>)

\* ------------------------------------------------- the engine: VM (pipa::vm)

Digits == <<"0", "1", "2", "3", "4", "5", "6", "7", "8", "9">>

RECURSIVE ToDecimal(_)
\* The decimal text of a natural number.
ToDecimal(n) ==
  IF n < Len(Digits) THEN <<Digits[n + 1]>>
  ELSE ToDecimal(n \div Len(Digits)) \o <<Digits[(n % Len(Digits)) + 1]>>

NoVm == [exists |-> FALSE, vars |-> <<>>, arrays |-> <<>>, scopes |-> <<>>,
         ip |-> 1, err |-> NoError]

\* Vm::new(variables, arrays)
VmNew(variables, arrs) ==
  [exists |-> TRUE, vars |-> variables, arrays |-> arrs, scopes |-> <<>>,
   ip |-> 1, err |-> NoError]

\* The scope of iteration idx (0-based) over arr; it remembers its loop.
IterScope(arr, idx, start) ==
  [binds |-> [n \in {"_index_", "_item_"} |->
                IF n = "_index_" THEN ToDecimal(idx) ELSE arr[idx + 1]],
   start |-> start, idx |-> idx]

\* The scope of a macro call: _ is the rendered pattern.
MacroScope(rendered) ==
  [binds |-> [n \in {"_"} |-> rendered], start |-> 0, idx |-> 0]

RECURSIVE LookupGlobalFirstFrom(_, _, _, _)
LookupGlobalFirstFrom(name, scopes, i, variables) ==
  IF i = 0 THEN Err([kind |-> "UndefinedVariable", name |-> name])
  ELSE IF name \in DOMAIN scopes[i].binds THEN Ok(scopes[i].binds[name])
       ELSE LookupGlobalFirstFrom(name, scopes, i - 1, variables)

\* Lookup with the global Variables consulted before the scopes.
LookupGlobalFirst(name, scopes, variables) ==
  IF name \in DOMAIN variables THEN Ok(variables[name])
  ELSE LookupGlobalFirstFrom(name, scopes, Len(scopes), variables)

RECURSIVE LookupFrom(_, _, _, _)
\* A name is resolved in the innermost active scope that binds it, and in the
\* global Variables only when no active scope does.
LookupFrom(name, scopes, i, variables) ==
  IF i = 0
  THEN IF name \in DOMAIN variables THEN Ok(variables[name])
       ELSE Err([kind |-> "UndefinedVariable", name |-> name])
  ELSE IF name \in DOMAIN scopes[i].binds THEN Ok(scopes[i].binds[name])
       ELSE LookupFrom(name, scopes, i - 1, variables)

Lookup(name, scopes, variables) == LookupFrom(name, scopes, Len(scopes), variables)

RECURSIVE RenderFrom(_, _, _, _, _)
\* A macro fragment (emits only) run in order: the text written, and the
\* error that stopped it, if any.
RenderFrom(frag, i, scopes, variables, acc) ==
  IF i > Len(frag) THEN [text |-> acc, err |-> NoError]
  ELSE IF frag[i].op = "EmitLiteral"
  THEN RenderFrom(frag, i + 1, scopes, variables, acc \o frag[i].text)
  ELSE LET v == Lookup(frag[i].name, scopes, variables)
       IN  IF ~v.ok THEN [text |-> acc, err |-> v.err]
           ELSE RenderFrom(frag, i + 1, scopes, variables, acc \o v.val)

Render(frag, scopes, variables) == RenderFrom(frag, 1, scopes, variables, <<>>)

LookupMacro(macros, block, name) ==
  macros[Min({i \in 1..Len(macros) :
                macros[i].block = block /\ macros[i].name = name})]

\* The EndArrayIter that closes the BeginArrayIter at ip.
MatchingEnd(instrs, ip) ==
  Min({j \in (ip + 1)..Len(instrs) : instrs[j].op = "EndArrayIter"})

Pop(scopes) == SubSeq(scopes, 1, Len(scopes) - 1)

\* One instruction of Vm::run: the VM and the sink after it.
VmExec(m, prog, sink) ==
  LET ins == prog.code[m.ip]
      next == [m EXCEPT !.ip = @ + 1]
      fail(e) == [vm |-> [m EXCEPT !.err = e], out |-> sink]
  IN  CASE ins.op = "EmitLiteral" -> [vm |-> next, out |-> sink \o ins.text]
        [] ins.op = "EmitVar" ->
             LET v == Lookup(ins.name, m.scopes, m.vars)
             IN  IF v.ok THEN [vm |-> next, out |-> sink \o v.val] ELSE fail(v.err)
        [] ins.op = "BeginArrayIter" ->
             IF ins.array \notin DOMAIN m.arrays
             THEN fail([kind |-> "UndefinedArray", name |-> ins.array])
             ELSE IF m.arrays[ins.array] = <<>>
             THEN [vm |-> [m EXCEPT !.ip = MatchingEnd(prog.code, m.ip) + 1],
                   out |-> sink]
             ELSE [vm |-> [next EXCEPT !.scopes =
                             Append(@, IterScope(m.arrays[ins.array], 0, m.ip))],
                   out |-> sink]
        [] ins.op = "EndArrayIter" ->
             LET top == m.scopes[Len(m.scopes)]
                 arr == m.arrays[prog.code[top.start].array]
             IN  IF top.idx + 1 < Len(arr)
                 THEN [vm |-> [m EXCEPT !.ip = top.start + 1,
                                        !.scopes = Append(Pop(@),
                                           IterScope(arr, top.idx + 1, top.start))],
                       out |-> sink]
                 ELSE [vm |-> [next EXCEPT !.scopes = Pop(@)], out |-> sink]
        [] ins.op = "BeginMacroCall" ->
             LET mac == LookupMacro(prog.macros, ins.block, ins.name)
                 pat == Render(mac.pattern, m.scopes, m.vars)
                 inner == Append(m.scopes, MacroScope(pat.text))
                 body == Render(mac.body, inner, m.vars)
             IN  IF pat.err # NoError THEN fail(pat.err)
                 ELSE IF body.err # NoError
                 THEN [vm |-> [m EXCEPT !.scopes = inner, !.err = body.err],
                       out |-> sink \o body.text]
                 ELSE [vm |-> [next EXCEPT !.scopes = inner],
                       out |-> sink \o body.text]
        [] OTHER -> \* EndMacroCall
             [vm |-> [next EXCEPT !.scopes = Pop(@)], out |-> sink]

\* Vm::run has returned: an error stopped it, or the program is at its end.
VmHalted(m, prog) == m.err # NoError \/ m.ip > Len(prog.code)

\* Vm::dump_state and dump_ir, as the text each writes: one chunk per
\* rendering, holding what it renders (the maps are keyed, so in key order).
DumpState(m) == <<[dump |-> "state", vars |-> m.vars, arrays |-> m.arrays]>>
DumpIr(prog) == <<[dump |-> "ir", code |-> prog.code, macros |-> prog.macros]>>
Newline == <<[dump |-> "\n"]>>

SpanText(span) == ToDecimal(span[1]) \o <<":">> \o ToDecimal(span[2])

\* Diagnostic::write_message(sink, label, source): the file label, the
\* location and the message of the error.
WriteMessage(e, label, src) ==
  <<label, ":">> \o
  CASE e.kind = "SyntaxError" -> SpanText(e.span) \o <<": ", e.kind>>
    [] e.kind = "UnknownMacro" -> SpanText(e.span) \o <<": ", e.kind, " ", e.name>>
    [] e.kind = "DuplicateMacro" ->
         SpanText(e.dup_span) \o <<": ", e.kind, " ", e.name, " first defined at ">>
         \o SpanText(e.first_span)
    [] OTHER -> <<": ", e.kind, " ", e.name>>

\* ------------------------------------------------------------ source texts

Comment == [kind |-> "Comment"]
Expression(parts) == [kind |-> "Expression", str |-> parts]
MacroDef(name, pattern, body) ==
  [kind |-> "MacroDef", name |-> name, pattern |-> pattern, body |-> body]
ArraySelect(array, macro) == [kind |-> "ArraySelect", array |-> array, macro |-> macro]
Malformed == [kind |-> "Malformed"]

HostText(chunks) == [i \in 1..Len(chunks) |-> Host(chunks[i])]

\* App::default's code.
DefaultCode ==
  HostText(<<"<!DOCTYPE html>", "\n", "<html>", "\n", "  <head>", "\n",
             "    <title>This is a hello page</title>", "\n", "  </head>", "\n",
             "  <body>", "\n", "    <div>", "\n", "        <p>", "\n", "        ">>)
  \o <<Block(<<Comment,
               Expression(<<Lit("\"Hello, "), Interp("name"), Lit(" "),
                            Interp("sirname"), Lit("\"")>>)>>)>>
  \o HostText(<<"\n", "        <p>This page is generated using the pipa language</p>",
                "\n", "        <ul>", "\n", "          ">>)
  \o <<Block(<<Comment,
               MacroDef("print_item",
                        <<Interp("_index_"), Lit(": "), Interp("_item_")>>,
                        <<Lit("\\n\\t\\t\\t<li>"), Interp("_"), Lit("</li>")>>),
               Comment,
               ArraySelect("LIST", "print_item")>>)>>
  \o HostText(<<"\n", "        </ul>", "\n", "    </div>", "\n", "  </body>", "\n",
                "</html>">>)

Item == MacroDef("m", <<Interp("_item_")>>, <<Interp("_")>>)
Row == MacroDef("m", <<Interp("_index_"), Lit("="), Interp("_item_")>>,
                <<Lit("["), Interp("_"), Lit("]")>>)

\* Sources a user can type: one per shape of program the engine tells apart.
SampleSources ==
  { DefaultCode,
    \* literal, undefined variable, literal
    <<Block(<<Expression(<<Lit("a"), Interp("x"), Lit("b")>>)>>)>>,
    HostText(<<"a">>) \o <<Block(<<Expression(<<Interp("x")>>)>>)>> \o HostText(<<"b">>),
    \* a tab in host text and in a literal
    HostText(<<"\t", "a">>) \o <<Block(<<Expression(<<Lit("\t"), Interp("name")>>)>>)>>,
    \* a structural violation
    HostText(<<"a">>) \o <<Block(<<Expression(<<Lit("b")>>), Malformed>>)>>,
    \* forward reference, backward reference
    <<Block(<<ArraySelect("LIST", "m"), Row>>)>>,
    <<Block(<<Row, ArraySelect("LIST", "m")>>)>> \o HostText(<<"z">>),
    \* a reference defined nowhere, and one defined only in another block
    HostText(<<"a">>) \o <<Block(<<ArraySelect("LIST", "m")>>)>>,
    <<Block(<<Item>>), Block(<<ArraySelect("LIST", "m")>>)>>,
    \* the same name defined twice; and again after an unknown reference
    HostText(<<"a">>) \o <<Block(<<Item, Comment, Row, ArraySelect("LIST", "m")>>)>>,
    <<Block(<<ArraySelect("LIST", "q"), Item, Item>>)>>,
    \* the same name in two blocks
    <<Block(<<Item, ArraySelect("LIST", "m")>>), Block(<<Row, ArraySelect("LIST", "m")>>)>>,
    \* the iteration bindings read after the loop
    <<Block(<<Item, ArraySelect("LIST", "m"), Expression(<<Interp("_item_")>>)>>)>>,
    <<Block(<<Item, ArraySelect("LIST", "m"), Expression(<<Interp("_")>>)>>)>>,
    <<Block(<<Expression(<<Interp("_index_")>>)>>)>>,
    \* an array that is not there; a macro whose body fails after writing
    <<Block(<<Item, ArraySelect("NOPE", "m")>>)>>,
    <<Block(<<MacroDef("m", <<Interp("_item_")>>, <<Lit("<"), Interp("_"), Interp("x")>>),
              ArraySelect("LIST", "m")>>)>> }

\* Sources with no {{ }} block, over an alphabet with newline and tab.
HostSources == {HostText(s) : s \in SeqsUpTo({"a", "\t", "\n"}, MaxLen)}

\* The multi-line texts of the array table.
ArrayTexts == SeqsUpTo({"a", "\n", "\r"}, MaxLen + 1)

\* ------------------------------------------------------------- the App state

\* scale counts half units: 1.0 is 2, 5.0 is 10, a button moves it by 0.5.
DefaultScale == 2
ScaleMin == 2
ScaleMax == 10
ScaleStep == 1

Put(map, key, value) ==
  [k \in DOMAIN map \cup {key} |-> IF k = key THEN value ELSE map[k]]
Remove(map, key) == [k \in DOMAIN map \ {key} |-> map[k]]

DefaultVars == Put(Put(<<>>, "name", <<"jon">>), "sirname", <<"doe">>)
DefaultArrays == Put(<<>>, "LIST", <<"first", "\n", "second", "\n", "third">>)
Drained == <<"", <<>>>>

\* What the user types into the table widgets.
TypedNames == {"x", "_item_"}
TypedArrayNames == {"LIST"}
TypedValues == {<<"v">>}
TypedArrayTexts == {<<>>, <<"a", "\n", "b", "\n">>}
\* What the user puts into the editor between two runs.
EditorSources ==
  {c \in SampleSources :
     \/ c = DefaultCode
     \/ \E i \in 1..Len(c) : c[i].t = "block" /\
          \E k \in 1..Len(c[i].stmts) :
             \/ c[i].stmts[k].kind = "Malformed"
             \/ c[i].stmts[k].kind = "Expression" /\ Len(c[i].stmts[k].str) = 3
             \/ c[i].stmts[k].kind = "ArraySelect" /\ c[i].stmts[k].macro = "q"}
  \cup {HostText(<<"\t">>)}

Idle == pc = "idle"
AppTables == <<scale, new_var, new_array, vars, arrays>>
\* run_vm has returned: its locals are gone.
Return == pc' = "idle" /\ out' = <<>> /\ tokens' = <<>> /\ ir' = NoIr /\ vm' = NoVm

\* App::default()
Init ==
  /\ scale = DefaultScale
  /\ new_var = Drained
  /\ new_array = Drained
  /\ vars = DefaultVars
  /\ arrays = DefaultArrays
  /\ code = DefaultCode
  /\ console = <<>>
  /\ output = <<>>
  /\ pc = "idle" /\ out = <<>> /\ tokens = <<>> /\ ir = NoIr /\ vm = NoVm
  /\ pressed = <<>>
  /\ edits = 0

\* A widget of update() other than Run takes input in this frame.
Edit == Idle /\ edits < MaxEdits /\ edits' = edits + 1
        /\ UNCHANGED <<console, output, pc, out, tokens, ir, vm, pressed>>

ScaleMinus ==
  /\ Edit
  /\ scale' = IF scale - ScaleStep < ScaleMin THEN ScaleMin ELSE scale - ScaleStep
  /\ UNCHANGED <<new_var, new_array, vars, arrays, code>>

ScalePlus ==
  /\ Edit
  /\ scale' = IF scale + ScaleStep > ScaleMax THEN ScaleMax ELSE scale + ScaleStep
  /\ UNCHANGED <<new_var, new_array, vars, arrays, code>>

EditVarValue ==
  /\ Edit
  /\ \E key \in DOMAIN vars, v \in TypedValues : vars' = [vars EXCEPT ![key] = v]
  /\ UNCHANGED <<scale, new_var, new_array, arrays, code>>

RemoveVar ==
  /\ Edit
  /\ \E key \in DOMAIN vars : vars' = Remove(vars, key)
  /\ UNCHANGED <<scale, new_var, new_array, arrays, code>>

EditNewVar ==
  /\ Edit
  /\ \/ \E n \in TypedNames : new_var' = <<n, new_var[2]>>
     \/ \E v \in TypedValues : new_var' = <<new_var[1], v>>
  /\ UNCHANGED <<scale, new_array, vars, arrays, code>>

AddVar ==
  /\ Edit
  /\ vars' = Put(vars, new_var[1], new_var[2])
  /\ new_var' = Drained
  /\ UNCHANGED <<scale, new_array, arrays, code>>

EditArrayValue ==
  /\ Edit
  /\ \E key \in DOMAIN arrays, v \in TypedArrayTexts :
       arrays' = [arrays EXCEPT ![key] = v]
  /\ UNCHANGED <<scale, new_var, new_array, vars, code>>

RemoveArray ==
  /\ Edit
  /\ \E key \in DOMAIN arrays : arrays' = Remove(arrays, key)
  /\ UNCHANGED <<scale, new_var, new_array, vars, code>>

EditNewArray ==
  /\ Edit
  /\ \/ \E n \in TypedArrayNames : new_array' = <<n, new_array[2]>>
     \/ \E v \in TypedArrayTexts : new_array' = <<new_array[1], v>>
  /\ UNCHANGED <<scale, new_var, vars, arrays, code>>

AddArray ==
  /\ Edit
  /\ arrays' = Put(arrays, new_array[1], new_array[2])
  /\ new_array' = Drained
  /\ UNCHANGED <<scale, new_var, vars, code>>

EditCode ==
  /\ Edit
  /\ \E c \in EditorSources : code' = c
  /\ UNCHANGED AppTables

\* ------------------------------------------------------------------ run_vm

\* The Run button: run_vm starts, and rewrites the tabs of the source.
RunPress ==
  /\ Idle
  /\ pressed' = code
  /\ code' = ReplaceTabs(code)
  /\ out' = <<>>
  /\ pc' = "ast"
  /\ UNCHANGED <<console, output, tokens, ir, vm, edits>>
  /\ UNCHANGED AppTables

\* RunAst without its return: the message is written and the run goes on.
RunAstIgnoresError ==
  /\ pc = "ast"
  /\ LET r == ast(code)
     IN  /\ tokens' = r.val
         /\ pc' = "gen_ir"
         /\ out' = IF r.ok THEN out ELSE out \o WriteMessage(r.err, "index.pipa", code)
         /\ UNCHANGED <<output, ir, vm>>
  /\ UNCHANGED <<code, console, pressed, edits>>
  /\ UNCHANGED AppTables

\* RunAst with the console cleared when the parse fails.
RunAstClearsConsole ==
  /\ pc = "ast"
  /\ LET r == ast(code)
     IN  IF r.ok
         THEN /\ tokens' = r.val
              /\ pc' = "gen_ir"
              /\ UNCHANGED <<output, console, out, ir, vm>>
         ELSE /\ output' = out \o WriteMessage(r.err, "index.pipa", code)
              /\ console' = <<>>
              /\ Return
  /\ UNCHANGED <<code, pressed, edits>>
  /\ UNCHANGED AppTables

\* tokenize + lex: a syntax error is written to the buffer, stored, and
\* run_vm returns.
RunAst ==
  /\ pc = "ast"
  /\ LET r == ast(code)
     IN  IF r.ok
         THEN /\ tokens' = r.val
              /\ pc' = "gen_ir"
              /\ UNCHANGED <<output, out, ir, vm>>
         ELSE /\ output' = out \o WriteMessage(r.err, "index.pipa", code)
              /\ Return
  /\ UNCHANGED <<code, console, pressed, edits>>
  /\ UNCHANGED AppTables

\* RunGenIr with the errors of one kind dropped: the run goes on with an
\* empty program.
RunGenIrDropping(kind) ==
  /\ pc = "gen_ir"
  /\ LET r == gen_ir(code, tokens)
     IN  IF r.ok \/ r.err.kind = kind
         THEN /\ ir' = IF r.ok THEN r.val ELSE IrProgram(<<>>, <<>>)
              /\ pc' = "convert"
              /\ UNCHANGED <<output, out, tokens, vm>>
         ELSE /\ output' = out \o WriteMessage(r.err, "index.pipa", code)
              /\ Return
  /\ UNCHANGED <<code, console, pressed, edits>>
  /\ UNCHANGED AppTables

\* RunGenIr with unknown macros left to the VM.
RunGenIrLateResolution == RunGenIrDropping("UnknownMacro")

\* RunGenIr with a repeated definition accepted.
RunGenIrKeepsLast == RunGenIrDropping("DuplicateMacro")

\* ir: a semantic error is written to the buffer, stored, and run_vm returns.
RunGenIr ==
  /\ pc = "gen_ir"
  /\ LET r == gen_ir(code, tokens)
     IN  IF r.ok
         THEN /\ ir' = r.val
              /\ pc' = "convert"
              /\ UNCHANGED <<output, out, tokens, vm>>
         ELSE /\ output' = out \o WriteMessage(r.err, "index.pipa", code)
              /\ Return
  /\ UNCHANGED <<code, console, pressed, edits>>
  /\ UNCHANGED AppTables

RECURSIVE SplitFrom(_, _, _)
\* str::split('\n'): every piece, the one after a final newline too.
SplitFrom(s, i, cur) ==
  IF i > Len(s) THEN <<cur>>
  ELSE IF s[i] = "\n" THEN <<cur>> \o SplitFrom(s, i + 1, <<>>)
       ELSE SplitFrom(s, i + 1, Append(cur, s[i]))

\* RunConvert with split('\n') for lines().
RunConvertSplit ==
  /\ pc = "convert"
  /\ vm' = VmNew(vars, [k \in DOMAIN arrays |-> SplitFrom(arrays[k], 1, <<>>)])
  /\ pc' = "run"
  /\ UNCHANGED <<code, console, output, out, tokens, ir, pressed, edits>>
  /\ UNCHANGED AppTables

\* RunConvert with the tables moved into the VM, not cloned.
RunConvertTakes ==
  /\ pc = "convert"
  /\ vm' = VmNew(vars, [k \in DOMAIN arrays |-> Lines(arrays[k])])
  /\ vars' = <<>> /\ arrays' = <<>>
  /\ pc' = "run"
  /\ UNCHANGED <<code, console, output, out, tokens, ir, pressed, edits>>
  /\ UNCHANGED <<scale, new_var, new_array>>

\* convert vars, and Vm::new: the tables are cloned, an array is the lines
\* of its text.
RunConvert ==
  /\ pc = "convert"
  /\ vm' = VmNew(vars, [k \in DOMAIN arrays |-> Lines(arrays[k])])
  /\ pc' = "run"
  /\ UNCHANGED <<code, console, output, out, tokens, ir, pressed, edits>>
  /\ UNCHANGED AppTables

\* vm.run(&mut output, &ir), one instruction.
VmStep ==
  /\ pc = "run"
  /\ ~VmHalted(vm, ir)
  /\ LET r == VmExec(vm, ir, out)
     IN  vm' = r.vm /\ out' = r.out
  /\ UNCHANGED <<code, console, output, pc, tokens, ir, pressed, edits>>
  /\ UNCHANGED AppTables

\* RunSave with the partial text dropped when the VM failed.
RunSaveDropsPartial ==
  /\ pc = "run"
  /\ VmHalted(vm, ir)
  /\ console' = DumpState(vm) \o Newline \o DumpIr(ir)
  /\ output' = IF vm.err = NoError THEN out ELSE <<>>
  /\ Return
  /\ UNCHANGED <<code, pressed, edits>>
  /\ UNCHANGED AppTables

\* RunSave with the runtime error written after the partial text.
RunSaveReportsError ==
  /\ pc = "run"
  /\ VmHalted(vm, ir)
  /\ console' = DumpState(vm) \o Newline \o DumpIr(ir)
  /\ output' = IF vm.err = NoError THEN out
               ELSE out \o WriteMessage(vm.err, "index.pipa", code)
  /\ Return
  /\ UNCHANGED <<code, pressed, edits>>
  /\ UNCHANGED AppTables

\* vm.run has returned (an error only goes to dbg!): fill console, save
\* changes.
RunSave ==
  /\ pc = "run"
  /\ VmHalted(vm, ir)
  /\ console' = DumpState(vm) \o Newline \o DumpIr(ir)
  /\ output' = out
  /\ Return
  /\ UNCHANGED <<code, pressed, edits>>
  /\ UNCHANGED AppTables

RunNext == RunPress \/ RunAst \/ RunGenIr \/ RunConvert \/ VmStep \/ RunSave

EditNext ==
  \/ ScaleMinus \/ ScalePlus
  \/ EditVarValue \/ RemoveVar \/ EditNewVar \/ AddVar
  \/ EditArrayValue \/ RemoveArray \/ EditNewArray \/ AddArray
  \/ EditCode

Next == EditNext \/ RunNext

\* A session of the playground from its default state.
Spec == Init /\ [][Next]_vars_all

\* App::new with a stored state: the tables and the source of an earlier
\* session, and then runs only.
StoredVars ==
  { DefaultVars, Put(DefaultVars, "x", <<"v">>), Put(DefaultVars, "_item_", <<"g">>),
    Put(Put(<<>>, "_", <<"u">>), "_index_", <<"i">>) }

EngineInit ==
  /\ scale = DefaultScale
  /\ new_var = Drained
  /\ new_array = Drained
  /\ vars \in StoredVars
  /\ arrays \in {<<>>} \cup {Put(<<>>, "LIST", t) : t \in ArrayTexts}
  /\ code \in SampleSources \cup HostSources
  /\ console = <<>>
  /\ output = <<>>
  /\ pc = "idle" /\ out = <<>> /\ tokens = <<>> /\ ir = NoIr /\ vm = NoVm
  /\ pressed = <<>>
  /\ edits = 0

EngineSpec == EngineInit /\ [][RunNext]_vars_all

\* ------------------------------------------------------------ the claims

IsPrefix(a, b) == Len(a) <= Len(b) /\ SubSeq(b, 1, Len(a)) = a
Message(e) == WriteMessage(e, "index.pipa", code)
Running == pc = "run"
Halted == Running /\ VmHalted(vm, ir)
Failed == Running /\ vm.err # NoError

\* The IR [EmitLiteral(a), EmitVar(x), EmitLiteral(b)] with x bound nowhere.
FailFastShape ==
  /\ vm.exists /\ Len(ir.code) = 3
  /\ ir.code[1].op = "EmitLiteral" /\ ir.code[2].op = "EmitVar"
  /\ ir.code[3].op = "EmitLiteral"
  /\ ir.code[2].name \notin DOMAIN vm.vars

\* C1: fail-fast ordering. A run of [EmitLiteral(a), EmitVar(x), EmitLiteral(b)]
\* with x unbound has written nothing or exactly a, and ends with exactly a
\* written and UndefinedVariable for x; in every run the sink only grows, and
\* once the VM has an error the next step executes no instruction: run_vm
\* saves the text written so far as the output.
C1_FailFast ==
  /\ [](Running /\ FailFastShape =>
          /\ out \in {<<>>, ir.code[1].text}
          /\ (Halted => /\ out = ir.code[1].text
                        /\ vm.err = [kind |-> "UndefinedVariable",
                                     name |-> ir.code[2].name]))
  /\ [][Running /\ pc' = "run" => IsPrefix(out, out')]_vars_all
  /\ [][Failed => pc' = "idle" /\ output' = out]_vars_all

\* C1 witness: the three-instruction run has stopped on x with a written.
C1_Witness ==
  Failed /\ FailFastShape /\ out = ir.code[1].text /\ out # <<>> /\ vm.ip = 2

StageOrder ==
  { <<"idle", "ast">>, <<"ast", "gen_ir">>, <<"ast", "idle">>,
    <<"gen_ir", "convert">>, <<"gen_ir", "idle">>, <<"convert", "run">>,
    <<"run", "idle">> }

\* C2: stage ordering of failures. The stages run in the order parse, IR
\* generation, execution; no IR exists while parsing and no VM before the IR
\* is generated; a run is past parsing only if the source parses and past IR
\* generation only if it lowers; a run that fails to parse or to lower
\* returns at that stage, with no VM, and its output is the diagnostic alone.
C2_StageOrder ==
  /\ [][pc' # pc => <<pc, pc'>> \in StageOrder]_vars_all
  /\ [](pc = "ast" => tokens = <<>> /\ ir = NoIr /\ vm = NoVm)
  /\ [](pc = "gen_ir" => ast(code).ok /\ tokens = ast(code).val
                         /\ ir = NoIr /\ vm = NoVm)
  /\ [](pc \in {"convert", "run"} =>
          /\ ast(code).ok /\ gen_ir(code, tokens).ok
          /\ ir = gen_ir(code, ast(code).val).val)
  /\ [][pc = "ast" /\ ~ast(code).ok =>
          pc' = "idle" /\ vm' = NoVm /\ output' = Message(ast(code).err)]_vars_all
  /\ [][pc = "gen_ir" /\ ~gen_ir(code, tokens).ok =>
          /\ pc' = "idle" /\ vm' = NoVm
          /\ output' = Message(gen_ir(code, tokens).err)]_vars_all

\* C2 witness: a run has returned from IR generation; the output is the
\* diagnostic of a source that parses.
C2_Witness ==
  /\ Idle /\ pressed # <<>> /\ code = ReplaceTabs(pressed)
  /\ ast(code).ok /\ ~gen_ir(code, ast(code).val).ok
  /\ output = Message(gen_ir(code, ast(code).val).err)

DefNames(stmts) == {stmts[k].name : k \in {j \in 1..Len(stmts) : stmts[j].kind = "MacroDef"}}

\* The spans of the ?name references no @name of the same block defines.
Unresolved(src) ==
  UNION { {<<i, k>> : k \in {j \in 1..Len(src[i].stmts) :
                               /\ src[i].stmts[j].kind = "ArraySelect"
                               /\ src[i].stmts[j].macro \notin DefNames(src[i].stmts)}}
          : i \in {b \in 1..Len(src) : src[b].t = "block"} }

Breaks(s) == {i \in 1..Len(s) : s[i] = "\n"}
NthBreak(s, j) == CHOOSE i \in Breaks(s) : Cardinality({b \in Breaks(s) : b <= i}) = j

\* The lines of a text, read off the positions of its newlines.
SplitLines(s) ==
  LET nb == Cardinality(Breaks(s))
      n == nb + (IF s # <<>> /\ s[Len(s)] # "\n" THEN 1 ELSE 0)
      first(j) == IF j = 1 THEN 1 ELSE NthBreak(s, j - 1) + 1
      last(j) == IF j > nb THEN Len(s)
                 ELSE IF NthBreak(s, j) > first(j) /\ s[NthBreak(s, j) - 1] = "\r"
                 THEN NthBreak(s, j) - 2 ELSE NthBreak(s, j) - 1
  IN  [j \in 1..n |-> SubSeq(s, first(j), last(j))]

RECURSIVE Concat(_)
\* The concatenation of a sequence of sequences.
Concat(ss) == IF ss = <<>> THEN <<>> ELSE Head(ss) \o Concat(Tail(ss))

Override(f, g) == [k \in DOMAIN f \cup DOMAIN g |-> IF k \in DOMAIN g THEN g[k] ELSE f[k]]

\* A fragment with every name replaced by its text in one flat environment.
Subst(frag, env) ==
  Concat([i \in 1..Len(frag) |->
            IF frag[i].op = "EmitLiteral" THEN frag[i].text ELSE env[frag[i].name]])

\* The IR of NAME[:] | ?m alone.
IsSelectProgram ==
  /\ Len(ir.code) = 4
  /\ ir.code[1].op = "BeginArrayIter" /\ ir.code[2].op = "BeginMacroCall"
  /\ ir.code[3].op = "EndMacroCall" /\ ir.code[4].op = "EndArrayIter"

\* The body of iteration i (1-based) of macro mac over arr.
IterationText(mac, arr, i) ==
  LET bound == [n \in {"_index_", "_item_"} |->
                  IF n = "_index_" THEN ToDecimal(i - 1) ELSE arr[i]]
      inPattern == Override(vm.vars, bound)
  IN  Subst(mac.body, Override(inPattern, [n \in {"_"} |-> Subst(mac.pattern, inPattern)]))

\* C4: array iteration through a macro. The arrays of the VM are the lines of
\* the stored texts, in order; an active iteration binds _index_ to the
\* decimal text of its ordinal and _item_ to that element; and a run of
\* NAME[:] | ?m over a present array of length n that ends without error has
\* written the n rendered bodies in array order, nothing when n = 0.
C4_ArrayIteration ==
  Running =>
    /\ DOMAIN vm.arrays = DOMAIN arrays
    /\ \A k \in DOMAIN arrays : vm.arrays[k] = SplitLines(arrays[k])
    /\ \A d \in 1..Len(vm.scopes) : "_item_" \in DOMAIN vm.scopes[d].binds =>
         LET arr == vm.arrays[ir.code[vm.scopes[d].start].array]
         IN  /\ vm.scopes[d].idx < Len(arr)
             /\ vm.scopes[d].binds["_index_"] = ToDecimal(vm.scopes[d].idx)
             /\ vm.scopes[d].binds["_item_"] = arr[vm.scopes[d].idx + 1]
    /\ (Halted /\ vm.err = NoError /\ IsSelectProgram
        /\ ir.code[1].array \in DOMAIN vm.arrays) =>
         LET arr == vm.arrays[ir.code[1].array]
             mac == CHOOSE e \in {ir.macros[j] : j \in 1..Len(ir.macros)} :
                      e.name = ir.code[2].name /\ e.block = ir.code[2].block
         IN  out = Concat([i \in 1..Len(arr) |-> IterationText(mac, arr, i)])

\* C4 witness: NAME[:] | ?m has run to its end over an array of two or more
\* lines whose text ends in a newline.
C4_Witness ==
  /\ Halted /\ vm.err = NoError /\ IsSelectProgram
  /\ ir.code[1].array \in DOMAIN vm.arrays
  /\ Len(vm.arrays[ir.code[1].array]) >= 2
  /\ arrays[ir.code[1].array][Len(arrays[ir.code[1].array])] = "\n"
  /\ Len(out) >= 4

NoBlocks(src) == \A i \in 1..Len(src) : src[i].t = "host"
TextOf(src) == [i \in 1..Len(src) |-> src[i].s]

\* C5: round trip of host text. A run of a source with no {{ }} block stores
\* as output the source as it was when Run was pressed.
C5_RoundTrip ==
  [][pc # "idle" /\ pc' = "idle" /\ NoBlocks(pressed) =>
       output' = TextOf(pressed)]_vars_all

\* The scopes open before instruction ip: Begins less Ends.
Depth(instrs, ip) ==
  Cardinality({j \in 1..(ip - 1) : instrs[j].op \in {"BeginArrayIter", "BeginMacroCall"}})
  - Cardinality({j \in 1..(ip - 1) : instrs[j].op \in {"EndArrayIter", "EndMacroCall"}})

Binds(name) == \E d \in 1..Len(vm.scopes) : name \in DOMAIN vm.scopes[d].binds
AtOp(op) == Running /\ ~VmHalted(vm, ir) /\ ir.code[vm.ip].op = op

\* C6: per-iteration scoping. While the VM runs without error its scope stack
\* is as deep as the brackets open at its instruction, so every End has
\* popped what its Begin pushed and the stack is empty at the end; EmitVar of
\* a name no active scope binds writes the value the user's Variables table
\* gives it, or fails with UndefinedVariable when there is none, whatever an
\* earlier iteration bound; and a macro call inside an iteration reads
\* _item_ and _ from the iteration, not from globals of those names.
C6_Scoping ==
  /\ [](Running /\ vm.err = NoError => Len(vm.scopes) = Depth(ir.code, vm.ip))
  /\ [](Halted /\ vm.err = NoError => vm.scopes = <<>>)
  /\ [][AtOp("EmitVar") /\ ~Binds(ir.code[vm.ip].name) =>
          IF ir.code[vm.ip].name \in DOMAIN vars
          THEN out' = out \o vars[ir.code[vm.ip].name] /\ vm'.err = NoError
          ELSE /\ out' = out
               /\ vm'.err = [kind |-> "UndefinedVariable",
                             name |-> ir.code[vm.ip].name]]_vars_all
  /\ [][(AtOp("BeginMacroCall") /\ Binds("_item_")
         /\ LookupMacro(ir.macros, ir.code[vm.ip].block, ir.code[vm.ip].name).pattern
              = <<EmitVar("_item_")>>
         /\ LookupMacro(ir.macros, ir.code[vm.ip].block, ir.code[vm.ip].name).body
              = <<EmitVar("_")>>) =>
          LET top == vm.scopes[Len(vm.scopes)]
          IN  out' = out \o vm.arrays[ir.code[top.start].array][top.idx + 1]]_vars_all

\* C6 witness: after a loop that bound _item_ and wrote its items, a global
\* _item_ has been emitted with its own value.
C6_Witness ==
  /\ Halted /\ vm.err = NoError /\ "_item_" \in DOMAIN vars
  /\ Len(ir.code) = 5 /\ ir.code[5] = EmitVar("_item_")
  /\ Len(out) >= 3 /\ out[Len(out)] = vars["_item_"][1]
  /\ out[1] # vars["_item_"][1]

\* C7: the environment is read-only across a run. No step of a run, from the
\* press of Run to its return, changes vars, arrays, new_var, new_array or
\* scale; the VM's variables and arrays are those of the user's tables while
\* it runs; and execution changes neither the IR nor the VM's environment.
C7_ReadOnlyEnvironment ==
  /\ [][pc # "idle" \/ pc' # "idle" => UNCHANGED AppTables]_vars_all
  /\ [](Running => /\ vm.vars = vars
                   /\ DOMAIN vm.arrays = DOMAIN arrays
                   /\ \A k \in DOMAIN arrays : vm.arrays[k] = Lines(arrays[k]))
  /\ [][Running /\ pc' = "run" =>
          ir' = ir /\ vm'.vars = vm.vars /\ vm'.arrays = vm.arrays]_vars_all

\* C7 witness: a run over edited tables has returned after the VM ran.
C7_Witness ==
  /\ Idle /\ pressed # <<>> /\ console # <<>> /\ output # <<>>
  /\ vars # DefaultVars /\ vars # <<>> /\ arrays # DefaultArrays /\ arrays # <<>>

\* C8: runtime errors are not surfaced. When vm.run has returned, with an
\* error or without, run_vm returns with the text the VM wrote as the output,
\* nothing appended, and with the console replaced by the dump of the VM
\* state, a newline and the dump of the IR.
C8_RuntimeErrorNotSurfaced ==
  [][Halted =>
       /\ pc' = "idle"
       /\ output' = out
       /\ console' = DumpState(vm) \o Newline \o DumpIr(ir)]_vars_all

\* C8 witness: a run that failed on x after writing a has returned; the
\* output is a and the console is a dump.
C8_Witness ==
  /\ Idle /\ Len(pressed) = 3 /\ pressed[2].t = "block"
  /\ code = pressed /\ "x" \notin DOMAIN vars
  /\ output = <<"a">> /\ Len(console) = 3

\* The pairs of definitions of one name in one block: <<block, first, second>>.
Dups(src) ==
  UNION { {<<i, k[1], k[2]>> :
             k \in {q \in (1..Len(src[i].stmts)) \X (1..Len(src[i].stmts)) :
                      /\ q[1] < q[2]
                      /\ src[i].stmts[q[1]].kind = "MacroDef"
                      /\ src[i].stmts[q[2]].kind = "MacroDef"
                      /\ src[i].stmts[q[1]].name = src[i].stmts[q[2]].name}}
          : i \in {b \in 1..Len(src) : src[b].t = "block"} }

\* C9: duplicate macro rejection. Lowering a block that defines a name twice
\* fails with DuplicateMacro, naming it with the spans of its first and its
\* repeated definition, and a block of distinct names never does; IR
\* generation then fails with no VM made and the diagnostic as the output; an
\* IR that exists has one entry per name and block.
C9_DuplicateMacro ==
  /\ [](pc = "gen_ir" =>
          /\ \A n \in 1..Len(tokens) : tokens[n].node = "ScriptBlock" =>
               LET r == LowerBlock(tokens[n])
                   here == {d \in Dups(code) : d[1] = tokens[n].at}
               IN  /\ here = {} => r.err.kind # "DuplicateMacro"
                   /\ here # {} =>
                        /\ r.err.kind = "DuplicateMacro"
                        /\ <<r.err.first_span[1], r.err.first_span[2],
                             r.err.dup_span[2]>> \in here
                        /\ r.err.dup_span[1] = tokens[n].at
                        /\ code[tokens[n].at].stmts[r.err.dup_span[2]].name = r.err.name
          /\ Dups(code) # {} => ~gen_ir(code, tokens).ok
          /\ Dups(code) = {} => gen_ir(code, tokens).err.kind # "DuplicateMacro")
  /\ [](pc \in {"convert", "run"} =>
          /\ Dups(code) = {}
          /\ \A a, b \in 1..Len(ir.macros) :
               ir.macros[a].name = ir.macros[b].name
               /\ ir.macros[a].block = ir.macros[b].block => a = b)
  /\ [][pc = "gen_ir" /\ gen_ir(code, tokens).err.kind = "DuplicateMacro" =>
          /\ pc' = "idle" /\ vm = NoVm /\ vm' = NoVm
          /\ output' = Message(gen_ir(code, tokens).err)]_vars_all

\* C9 witness: a run of a source with a twice-defined macro has returned with
\* the DuplicateMacro diagnostic as its output.
C9_Witness ==
  /\ Idle /\ pressed # <<>> /\ Dups(code) # {} /\ ast(code).ok
  /\ gen_ir(code, ast(code).val).err.kind = "DuplicateMacro"
  /\ output = Message(gen_ir(code, ast(code).val).err)

\* C10: console frame on compile failure. A run that returns from parsing or
\* from IR generation stores the diagnostic as output and leaves the console
\* as it was; the console changes only when a run returns from the VM, and
\* then to the dump of that run.
C10_ConsoleFrame ==
  /\ [][(pc = "ast" \/ pc = "gen_ir") /\ pc' = "idle" =>
          /\ console' = console
          /\ output' = Message(IF pc = "ast" THEN ast(code).err
                               ELSE gen_ir(code, tokens).err)]_vars_all
  /\ [][console' # console =>
          Halted /\ pc' = "idle"
          /\ console' = DumpState(vm) \o Newline \o DumpIr(ir)]_vars_all

\* C10 witness: after a run that reached the VM and an edit, a run has failed
\* to parse: the output is its diagnostic and the console still holds the
\* earlier run's dump, whose IR is not that of the source in the editor.
C10_Witness ==
  /\ Idle /\ ~ast(code).ok /\ output = Message(ast(code).err)
  /\ Len(console) = 3 /\ console[3].code # <<>>

====
